---- MODULE Spec2Model ----
(***************************************************************************)
(* A model of the duckdb-pipeline data lake: the ingester                  *)
(* (data_lake_ingester.py: HttpDataCollector, S3DataStorage,               *)
(* DataLakeIngester) and the transformer (data_lake_transformer.py:        *)
(* DataLakeTransformer).                                                   *)
(*                                                                         *)
(* Python strings are sequences of one-character strings, so that keys and *)
(* file names can be taken apart again.  Exceptions are records            *)
(* [type, status]; NoError stands for "nothing was raised".                *)
(***************************************************************************)
EXTENDS Integers, Sequences, FiniteSets, TLC

VARIABLES
  \* ---- DataLakeIngester and the world it talks to
  ingester,       \* the instance's fields, or NoIngester before/without construction
  pc,             \* position of the constructor / of ingest_hourly_gharchive
  args,           \* the arguments the constructor was called with
  s3ClientBuilt,  \* boto3.client("s3", ...) was called by S3DataStorage.__init__
  process_date,   \* argument of the running ingest_hourly_gharchive
  data_filename,  \* its locals ...
  data_url,
  s3_key,
  data,           \* what collect returned
  response,       \* the HTTP response requests.get produced in this invocation
  calls,          \* the calls this invocation made on collector and storage
  logs,           \* log records this invocation emitted
  raised,         \* the exception the caller received from this invocation
  fault,          \* the exception the library (requests, boto3) raised in it
  objectStore,    \* the bucket: a set of objects [key, body]
  lastSuccess,    \* per key, the body of the last store that returned normally
  unknownKeys,    \* keys whose latest upload raised: destination state unknown
  previous,       \* what the key held when this invocation's upload began
  runs,           \* invocations completed
  \* ---- DataLakeTransformer and its DuckDB session
  tpc,            \* position of the transformer's life and of its running call
  hasCon,         \* hasattr(self, 'con')
  con,            \* state of the session self.con: "absent", "open", "closed"
  closeLog,       \* the session state found by each con.close() the object made
  opLog,          \* the session states found by the statements run on self.con
  tables,         \* the session's relations: name -> [exists, rows]
  exported,       \* parquet files written: [stage, source, rows]
  tsource,        \* source_path of the running call
  trel,           \* the relation handle the running call holds
  traised,        \* the exception the caller received from the running call
  tfault,         \* the exception DuckDB raised in it
  tlogs,          \* log records of the running call
  tcalls,         \* calls this transformer completed
  engines,        \* transformers constructed so far
  \* ---- the batch drivers (scripts/run_batch_ingest_data.py, run_batch_agg_data.py)
  script,         \* which script this process runs: "ingest", "agg", or "none"
  dargs,          \* args.start_date and args.end_date as parse_args returned them
  current_date,   \* main's local current_date
  hour,           \* main's loop variable hour
  dpc,            \* position of main
  dcalls,         \* the calls main made on the ingester / transformer that are over
  dlog,           \* log records main emitted
  \* ---- one application of a pure function
  fname,          \* the function applied
  farg,           \* its argument
  fres            \* its result (NoResult before the application)

ingestVars == <<process_date, data_filename, data_url, s3_key, data, response,
                calls, logs, raised, fault, objectStore, lastSuccess,
                unknownKeys, previous, runs>>
ctorVars == <<ingester, args, s3ClientBuilt>>
transformerVars == <<tpc, hasCon, con, closeLog, opLog, tables, exported,
                     tsource, trel, traised, tfault, tlogs, tcalls, engines>>
driverVars == <<script, dargs, current_date, hour, dpc, dcalls, dlog>>
funVars == <<fname, farg, fres>>
vars == <<pc, ctorVars, ingestVars, transformerVars, driverVars, funVars>>

----------------------------------------------------------------------------
(* Bounds of the model *)

\* ingest_hourly_gharchive invocations per ingester, over the timestamps of RerunDates
MaxRuns == 3
\* ingest_hourly_gharchive invocations per ingester, over every hour of Dates
MaxHourlyRuns == 1
\* transformers constructed and discarded in one behaviour
MaxEngines == 2
\* serialise/aggregate calls per transformer
MaxCalls == 2
\* days in the date range given to a batch driver
MaxDays == 2
\* rows of a relation given to a query
MaxRows == 3

----------------------------------------------------------------------------
(* Strings and strftime *)

Str_http == <<"h","t","t","p",":","/","/","d","a","t","a",".","g","h","a","r",
              "c","h","i","v","e",".","o","r","g","/">>
Str_json_gz == <<".","j","s","o","n",".","g","z">>

Digits == <<"0","1","2","3","4","5","6","7","8","9">>

Digit(n) == Digits[n + 1]

RECURSIVE Pad(_, _)
\* n in decimal, zero-padded to w digits (%Y for w = 4; %m, %d, %H for w = 2)
Pad(n, w) == IF w = 0 THEN <<>> ELSE Pad(n \div 10, w - 1) \o <<Digit(n % 10)>>

RECURSIVE Unpadded(_)
\* n in decimal without padding (%-H)
Unpadded(n) == IF n < 10 THEN <<Digit(n)>> ELSE Unpadded(n \div 10) \o <<Digit(n % 10)>>

\* datetime.strftime(process_date, "%Y-%m-%d")
StrftimeDate(pd) == Pad(pd.year, 4) \o <<"-">> \o Pad(pd.month, 2) \o <<"-">> \o Pad(pd.day, 2)

\* datetime.strftime(process_date, "%-H") with the unpadded hour
StrftimeHourUnpadded(pd) == Unpadded(pd.hour)

\* datetime.strftime(process_date, "%H")
StrftimeHour(pd) == Pad(pd.hour, 2)

\* datetime.strftime(process_date, "%Y-%m-%d-%-H")
StrftimeDateHour(pd) == StrftimeDate(pd) \o <<"-">> \o StrftimeHourUnpadded(pd)

\* f"{date_hour}.json.gz"
DataFilename(pd) == StrftimeDateHour(pd) \o Str_json_gz

\* f"http://data.gharchive.org/{data_filename}"
DataUrl(filename) == Str_http \o filename

\* _generate_sink_key with the hour formatted as the file name formats it ("%-H")
GenerateSinkKey_UnpaddedHour(pd, filename, sink_base_path) ==
  sink_base_path \o <<"/">> \o StrftimeDate(pd) \o <<"/">> \o StrftimeHourUnpadded(pd) \o <<"/">> \o filename

\* DataLakeIngester._generate_sink_key
GenerateSinkKey(pd, filename, sink_base_path) ==
  sink_base_path \o <<"/">> \o StrftimeDate(pd) \o <<"/">> \o StrftimeHour(pd) \o <<"/">> \o filename

----------------------------------------------------------------------------
(* Inputs *)

\* datetime.hour
Hours == 0 .. 23
Dates == {[year |-> 2023, month |-> 1, day |-> 9], [year |-> 2024, month |-> 12, day |-> 31]}
ProcessDates == {[year |-> d.year, month |-> d.month, day |-> d.day, hour |-> h] : d \in Dates, h \in Hours}
\* the timestamps a caller that re-runs hours passes
RerunDates == {pd \in ProcessDates : (pd.year = 2023 /\ pd.hour \in {3, 13})
                                        \/ (pd.year = 2024 /\ pd.hour = 0)}
\* dataset_base_path; the drivers pass "gharchive/events"
BasePaths == {<<"b">>, <<"g","/","e">>}
\* response.content
Bodies == {<<1>>, <<2, 3>>}
\* response.status_code
StatusCodes == {101, 200, 204, 299, 304, 404, 503}

----------------------------------------------------------------------------
(* Values *)

NoError == [type |-> "none", status |-> 0]
HTTPError(status) == [type |-> "HTTPError", status |-> status]
ConnectionError == [type |-> "ConnectionError", status |-> 0]
S3UploadFailedError == [type |-> "S3UploadFailedError", status |-> 0]
ClientError == [type |-> "ClientError", status |-> 0]
ValueError == [type |-> "ValueError", status |-> 0]
KeyErrorCredentials == [type |-> "KeyError: Missing S3 credentials in config", status |-> 0]
KeyErrorBucket == [type |-> "KeyError: Missing bronze bucket name in config", status |-> 0]
FileNotFoundError == [type |-> "FileNotFoundError", status |-> 0]

\* Python's None where a stream is expected, and io.BytesIO(content)
None == [isNone |-> TRUE, content |-> <<>>, pos |-> 0]
BytesIO(content) == [isNone |-> FALSE, content |-> content, pos |-> 0]

NoResponse == [status |-> 0, content |-> <<>>]
NoDate == [year |-> 0, month |-> 0, day |-> 0, hour |-> 0]
\* a datetime at midnight, as parse_date returns it
NoDay == [year |-> 0, month |-> 0, day |-> 0]
NoRange == [start_date |-> NoDay, end_date |-> NoDay]
\* the result of a function: none yet, or the value it returned
NoResult == [kind |-> "none", value |-> <<>>]
Value(v) == [kind |-> "value", value |-> v]

Log(who, level, e) == [who |-> who, level |-> level, err |-> e]
Call(op, arg, result) == [op |-> op, arg |-> arg, result |-> result]

----------------------------------------------------------------------------
(* DataLakeIngester.__init__ *)

Options == {"aws.s3_access_key_id", "aws.s3_secret_access_key", "aws.s3_region_name",
            "aws.s3_endpoint_url", "datalake.bronze_bucket"}

\* What a caller may pass: the base path, the three optional collaborators (None or
\* an injected object), the options the configuration holds, and, for the default
\* FileConfigProvider, whether config.ini exists.
CtorArgs == [dataset_base_path : BasePaths,
             config_provider : {"None", "injected"},
             config_file_exists : BOOLEAN,
             config : SUBSET Options,
             data_collector : {"None", "injected"},
             data_storage : {"None", "injected"}]

NoCredentials == [region_name |-> FALSE, endpoint_url |-> FALSE]
NoStorage == [kind |-> "unset", credentials |-> NoCredentials]
NoIngester == [dataset_base_path |-> <<>>, config |-> {}, data_collector |-> "unset",
               data_storage |-> NoStorage]
NoArgs == [dataset_base_path |-> <<>>, config_provider |-> "None", config_file_exists |-> FALSE,
           config |-> {}, data_collector |-> "None", data_storage |-> "None"]

\* FileConfigProvider.get_config, or the injected provider's get_config
GetConfig(a) ==
  IF a.config_provider = "None" /\ ~a.config_file_exists
  THEN [error |-> FileNotFoundError, config |-> {}]
  ELSE [error |-> NoError, config |-> a.config]

\* the options _get_s3_credentials reads with config.get, which raises when one is absent
RequiredCredentials_AccessKeyOnly == {"aws.s3_access_key_id"}
RequiredCredentials == {"aws.s3_access_key_id", "aws.s3_secret_access_key"}

\* DataLakeIngester._get_s3_credentials
GetS3Credentials(config) ==
  IF RequiredCredentials \subseteq config
  THEN [error |-> NoError,
        credentials |-> [region_name |-> "aws.s3_region_name" \in config,
                         endpoint_url |-> "aws.s3_endpoint_url" \in config]]
  ELSE [error |-> KeyErrorCredentials, credentials |-> NoCredentials]

\* DataLakeIngester._bronze_bucket_name
BronzeBucketName(config) ==
  IF "datalake.bronze_bucket" \in config THEN NoError ELSE KeyErrorBucket

\* DataLakeIngester.__init__: the exception it raises (NoError when it returns), the
\* instance it leaves, and whether S3DataStorage.__init__ built the boto3 client.
InitIngester(a) ==
  LET cfg == GetConfig(a)
      collector == IF a.data_collector = "None" THEN "HttpDataCollector" ELSE "injected"
      creds == GetS3Credentials(cfg.config)
      bucket == BronzeBucketName(cfg.config)
      made(storage) == [dataset_base_path |-> a.dataset_base_path, config |-> cfg.config,
                        data_collector |-> collector, data_storage |-> storage]
      failed(e) == [error |-> e, ingester |-> NoIngester, clientBuilt |-> FALSE]
  IN IF cfg.error # NoError THEN failed(cfg.error)
     ELSE IF a.data_storage # "None"
     THEN [error |-> NoError, clientBuilt |-> FALSE,
           ingester |-> made([kind |-> "injected", credentials |-> NoCredentials])]
     ELSE IF creds.error # NoError THEN failed(creds.error)
     ELSE IF bucket # NoError THEN failed(bucket)
     ELSE [error |-> NoError, clientBuilt |-> TRUE,
           ingester |-> made([kind |-> "S3DataStorage", credentials |-> creds.credentials])]

----------------------------------------------------------------------------
(* HttpDataCollector and S3DataStorage *)

\* requests.Response.raise_for_status, as collect calls it
RaiseForStatus(status) ==
  IF 400 <= status /\ status < 600 THEN HTTPError(status) ELSE NoError

\* HttpDataCollector.collect on the response requests.get returned: what it raises,
\* what it returns and what it logs.  When raise_for_status does not raise, the
\* function falls off its end (Python returns None).
HttpCollect(resp) ==
  IF resp.status = 200
  THEN [raise |-> NoError, value |-> BytesIO(resp.content),
        logs |-> <<Log("collect", "info", NoError)>>]
  ELSE [raise |-> RaiseForStatus(resp.status), value |-> None,
        logs |-> <<Log("collect", "info", NoError),
                   Log("collect", "error", [type |-> "status", status |-> resp.status])>>]

\* the object store emptied of everything but the new object
Put_OnlyObject(store, key, body) == {[key |-> key, body |-> body]}

\* the object store with the new body appended to the body the key held
Put_Append(store, key, body) ==
  {o \in store : o.key # key}
    \cup {[key |-> key, body |-> o.body \o body] : o \in {x \in store : x.key = key}}
    \cup (IF \E o \in store : o.key = key THEN {} ELSE {[key |-> key, body |-> body]})

\* The bucket after upload_fileobj wrote `body` under `key`: the object replaces
\* whatever the key held.
Put(store, key, body) == {o \in store : o.key # key} \cup {[key |-> key, body |-> body]}

\* what upload_fileobj reads from the stream: from its position to its end
Unread(stream) == SubSeq(stream.content, stream.pos + 1, Len(stream.content))
Drained(stream) == [stream EXCEPT !.pos = Len(stream.content)]

\* the exceptions upload_fileobj raises for a failed upload
UploadErrors == {S3UploadFailedError, ClientError}

\* the except clauses of S3DataStorage.store that return instead of re-raising
StoreExcept_Swallow(e) == [log |-> Log("store", "error", e), raise |-> NoError]

\* the except clauses of S3DataStorage.store: log, then a bare raise
StoreExcept(e) == [log |-> Log("store", "error", e), raise |-> e]

----------------------------------------------------------------------------
(* DataLakeIngester.ingest_hourly_gharchive, step by step *)

\* the except clause retrying the download instead of re-raising
IngestExcept_Retry(e, lg, cl) ==
  /\ logs' = Append(lg, Log("ingest", "error", e))
  /\ calls' = cl
  /\ raised' = NoError
  /\ pc' = "url_derived"

\* the except clause carrying on to the store instead of re-raising
IngestExcept_CarryOn(e, lg, cl) ==
  /\ logs' = Append(lg, Log("ingest", "error", e))
  /\ calls' = cl
  /\ raised' = NoError
  /\ pc' = "collected"

\* The except clause of ingest_hourly_gharchive, entered with exception e after the
\* log records lg and the calls cl: log the failure, then a bare raise.
IngestExcept(e, lg, cl) ==
  /\ logs' = Append(lg, Log("ingest", "error", e))
  /\ calls' = cl
  /\ raised' = e
  /\ pc' = "failed"

\* the caller invokes ingest_hourly_gharchive(pd); the names and the key are derived
Begin(pd) ==
  /\ pc = "idle"
  /\ process_date' = pd
  /\ data_filename' = DataFilename(pd)
  /\ data_url' = DataUrl(DataFilename(pd))
  /\ s3_key' = GenerateSinkKey(pd, DataFilename(pd), ingester.dataset_base_path)
  /\ pc' = "url_derived"
  /\ data' = None
  /\ response' = NoResponse
  /\ calls' = <<>>
  /\ logs' = <<>>
  /\ raised' = NoError
  /\ fault' = NoError
  /\ previous' = {}
  /\ UNCHANGED <<objectStore, lastSuccess, unknownKeys, runs, ctorVars, transformerVars, driverVars, funVars>>

\* self.data_collector.collect(data_url), with HttpDataCollector, when the bodies
\* the archive may serve are `bodies`
CollectFrom(bodies) ==
  /\ pc = "url_derived"
  /\ \/ \* requests.get itself raises
        /\ response' = NoResponse
        /\ fault' = ConnectionError
        /\ data' = None
        /\ IngestExcept(ConnectionError, Append(logs, Log("collect", "info", NoError)),
                        Append(calls, Call("collect", data_url, "raised")))
     \/ \* requests.get returns a response
        \E st \in StatusCodes, body \in bodies :
          LET resp == [status |-> st, content |-> body]
              r == HttpCollect(resp)
          IN /\ response' = resp
             /\ fault' = r.raise
             /\ IF r.raise # NoError
                THEN /\ data' = None
                     /\ IngestExcept(r.raise, logs \o r.logs,
                                     Append(calls, Call("collect", data_url, "raised")))
                ELSE /\ data' = r.value
                     /\ logs' = logs \o r.logs
                     /\ calls' = Append(calls, Call("collect", data_url, "returned"))
                     /\ pc' = "collected"
                     /\ UNCHANGED raised
  /\ UNCHANGED <<process_date, data_filename, data_url, s3_key, objectStore, lastSuccess,
                 unknownKeys, previous, runs, ctorVars, transformerVars, driverVars, funVars>>

\* collect, whatever the archive serves
Collect == CollectFrom(Bodies)

\* response.content of an archive that serves the same file whenever it is asked
FixedBodies == {<<1>>}

\* store returned normally: ingest_hourly_gharchive logs its success and returns
StoreReturned(lg, cl) ==
  /\ logs' = Append(lg, Log("ingest", "info", NoError))
  /\ calls' = cl
  /\ pc' = "stored"
  /\ UNCHANGED raised

\* store ended with what its except clauses decided
StoreFailed(e, cl) ==
  LET x == StoreExcept(e)
  IN IF x.raise = NoError
     THEN StoreReturned(Append(logs, x.log), cl)
     ELSE IngestExcept(x.raise, Append(logs, x.log), cl)

\* self.data_storage.store(data, s3_key), with S3DataStorage
Store ==
  /\ pc = "collected"
  /\ \/ \* upload_fileobj refuses an object without read() before any request
        /\ data.isNone
        /\ fault' = ValueError
        /\ StoreFailed(ValueError, Append(calls, Call("store", s3_key, "raised")))
        /\ UNCHANGED <<data, objectStore, lastSuccess, unknownKeys, previous>>
     \/ \* the upload succeeds
        /\ ~data.isNone
        /\ objectStore' = Put(objectStore, s3_key, Unread(data))
        /\ lastSuccess' = {o \in lastSuccess : o.key # s3_key}
                             \cup {[key |-> s3_key, body |-> Unread(data)]}
        /\ unknownKeys' = unknownKeys \ {s3_key}
        /\ previous' = {o \in objectStore : o.key = s3_key}
        /\ data' = Drained(data)
        /\ StoreReturned(Append(logs, Log("store", "info", NoError)),
                         Append(calls, Call("store", s3_key, "returned")))
        /\ UNCHANGED fault
     \/ \* the upload raises; the bucket may or may not have taken the object
        /\ ~data.isNone
        /\ \E e \in UploadErrors, applied \in BOOLEAN :
             /\ fault' = e
             /\ objectStore' = IF applied THEN Put(objectStore, s3_key, Unread(data))
                                          ELSE objectStore
             /\ StoreFailed(e, Append(calls, Call("store", s3_key, "raised")))
        /\ data' = Drained(data)
        /\ unknownKeys' = unknownKeys \cup {s3_key}
        /\ previous' = {o \in objectStore : o.key = s3_key}
        /\ UNCHANGED lastSuccess
  /\ UNCHANGED <<process_date, data_filename, data_url, s3_key, response, runs,
                 ctorVars, transformerVars, driverVars, funVars>>

\* the invocation is over (it returned, or its exception reached the caller): its
\* locals are gone; what the caller does with the outcome is the caller's part
Returning ==
  /\ pc \in {"stored", "failed"}
  /\ pc' = "idle"
  /\ runs' = runs + 1
  /\ process_date' = NoDate
  /\ data_filename' = <<>>
  /\ data_url' = <<>>
  /\ s3_key' = <<>>
  /\ data' = None
  /\ response' = NoResponse
  /\ calls' = <<>>
  /\ logs' = <<>>
  /\ raised' = NoError
  /\ fault' = NoError
  /\ previous' = {}
  /\ UNCHANGED <<objectStore, lastSuccess, unknownKeys, ctorVars, transformerVars, funVars>>

\* the invocation is over and the caller keeps no record of it
Return == Returning /\ UNCHANGED driverVars

\* DataLakeIngester(...) is called with args; it returns the instance or raises
Construct ==
  /\ pc = "new"
  /\ LET r == InitIngester(args)
     IN /\ ingester' = r.ingester
        /\ s3ClientBuilt' = r.clientBuilt
        /\ raised' = r.error
        /\ pc' = IF r.error = NoError THEN "idle" ELSE "ctor_failed"
  /\ UNCHANGED <<args, process_date, data_filename, data_url, s3_key, data, response,
                 calls, logs, fault, objectStore, lastSuccess, unknownKeys, previous,
                 runs, transformerVars, driverVars, funVars>>

----------------------------------------------------------------------------
(* Relations and the queries of DataLakeTransformer *)

\* SQL NULL in a column of strings
NULL == "NULL"

\* a TIMESTAMP: a day and the seconds into it, or NULL
Ts(day, secs) == [null |-> FALSE, day |-> day, secs |-> secs]
NullTs == [null |-> TRUE, day |-> 0, secs |-> 0]

\* DATE_TRUNC on timestamps left as they are
DateTruncDay_Identity(ts) == ts

\* DATE_TRUNC('day', ts): midnight of the same day; NULL stays NULL
DateTruncDay(ts) == IF ts.null THEN ts ELSE [ts EXCEPT !.secs = 0]

\* A GitHub Archive event as read_json_auto reads it: the fields the pipeline
\* uses, inside structs that hold more, next to fields it does not use.
Actor1 == [id |-> "7", login |-> "ann", display_login |-> "Ann", gravatar_id |-> ""]
Actor2 == [id |-> "8", login |-> "bob", display_login |-> NULL, gravatar_id |-> "g"]
Repo1 == [id |-> "1", name |-> "o/a", url |-> "https://api/o/a"]
RawRows ==
  {[id |-> i, type |-> "PushEvent", actor |-> a, repo |-> Repo1,
    created_at |-> Ts(1, 3600), public |-> "true", payload |-> p] :
     i \in {"1", "2"}, a \in {Actor1, Actor2}, p \in {"x", NULL}}

\* the relations of at most MaxRows rows over a set of rows (rows may repeat)
Relations(rows) == UNION {[1 .. n -> rows] : n \in 0 .. MaxRows}

\* the SELECT list of clean_raw_gharchive with user_name taken from display_login
CleanRow_DisplayLogin(r) ==
  [event_id |-> r.id, user_id |-> r.actor.id, user_name |-> r.actor.display_login,
   user_display_name |-> r.actor.display_login, event_type |-> r.type,
   repo_id |-> r.repo.id, repo_name |-> r.repo.name, repo_url |-> r.repo.url,
   event_date |-> r.created_at]

\* the SELECT list of clean_raw_gharchive, applied to one raw row
CleanRow(r) ==
  [event_id |-> r.id, user_id |-> r.actor.id, user_name |-> r.actor.login,
   user_display_name |-> r.actor.display_login, event_type |-> r.type,
   repo_id |-> r.repo.id, repo_name |-> r.repo.name, repo_url |-> r.repo.url,
   event_date |-> r.created_at]

\* the query of clean_raw_gharchive: SELECT ... FROM raw, with no WHERE clause
CleanQuery(raw) == [i \in 1 .. Len(raw) |-> CleanRow(raw[i])]

\* a row of a cleaned (silver) file
SilverRow(id, type, rid, rname, rurl, ts) ==
  [event_id |-> id, user_id |-> "7", user_name |-> "ann", user_display_name |-> "Ann",
   event_type |-> type, repo_id |-> rid, repo_name |-> rname, repo_url |-> rurl,
   event_date |-> ts]

\* cleaned rows that differ from the first in one column each: the event id, each
\* grouping column, the time of day, the day, and a NULL date
SilverRows ==
  {SilverRow("1", "PushEvent", "1", "o/a", "u", Ts(1, 3600)),
   SilverRow("2", "PushEvent", "1", "o/a", "u", Ts(1, 3600)),
   SilverRow("1", "WatchEvent", "1", "o/a", "u", Ts(1, 3600)),
   SilverRow("1", "PushEvent", "2", "o/a", "u", Ts(1, 3600)),
   SilverRow("1", "PushEvent", "1", "o/b", "u", Ts(1, 3600)),
   SilverRow("1", "PushEvent", "1", "o/a", "v", Ts(1, 3600)),
   SilverRow("1", "PushEvent", "1", "o/a", "u", Ts(1, 7200)),
   SilverRow("1", "PushEvent", "1", "o/a", "u", Ts(2, 0)),
   SilverRow("1", "PushEvent", "1", "o/a", "u", NullTs)}

\* the non-aggregate columns of aggregate_raw_gharchive's SELECT list, which
\* GROUP BY ALL groups by; CAST(event_date AS TIMESTAMP) of a timestamp is itself
GroupKey(r) ==
  [event_type |-> r.event_type, repo_id |-> r.repo_id, repo_name |-> r.repo_name,
   repo_url |-> r.repo_url, event_date |-> DateTruncDay(r.event_date)]

\* one output row of the aggregation: the group's columns and count(*)
AggRow(rows, key) ==
  [event_type |-> key.event_type, repo_id |-> key.repo_id, repo_name |-> key.repo_name,
   repo_url |-> key.repo_url, event_date |-> key.event_date,
   event_count |-> Cardinality({i \in 1 .. Len(rows) : GroupKey(rows[i]) = key})]

RECURSIVE SeqOf(_)
\* the rows of a result set, in some order
SeqOf(S) ==
  IF S = {} THEN <<>>
  ELSE LET x == CHOOSE y \in S : TRUE IN <<x>> \o SeqOf(S \ {x})

\* the query of aggregate_raw_gharchive
AggregateQuery(rows) ==
  SeqOf({AggRow(rows, key) : key \in {GroupKey(rows[i]) : i \in 1 .. Len(rows)}})

\* clean_raw_gharchive is applied to a raw relation
ApplyClean ==
  /\ fname = "clean_raw_gharchive"
  /\ fres = NoResult
  /\ fres' = Value(CleanQuery(farg))
  /\ UNCHANGED <<fname, farg, pc, ctorVars, ingestVars, transformerVars, driverVars>>

\* aggregate_raw_gharchive is applied to a cleaned relation
ApplyAggregate ==
  /\ fname = "aggregate_raw_gharchive"
  /\ fres = NoResult
  /\ fres' = Value(AggregateQuery(farg))
  /\ UNCHANGED <<fname, farg, pc, ctorVars, ingestVars, transformerVars, driverVars>>

----------------------------------------------------------------------------
(* DataLakeTransformer *)

\* source_path of serialise_raw_data: raw (bronze) files
SourcePaths == {"s3://bronze/a", "s3://bronze/b"}
\* source_path of aggregate_silver_data: cleaned (silver) files
SilverPaths == {"s3://silver/a", "s3://silver/b"}

\* what read_json_auto(source_path) reads from the lake
RawFile(path) ==
  IF path = "s3://bronze/a"
  THEN <<[id |-> "1", type |-> "PushEvent", actor |-> Actor1, repo |-> Repo1,
          created_at |-> Ts(1, 3600), public |-> "true", payload |-> "x"],
         [id |-> "2", type |-> "PushEvent", actor |-> Actor2, repo |-> Repo1,
          created_at |-> Ts(1, 7200), public |-> "true", payload |-> NULL]>>
  ELSE <<[id |-> "3", type |-> "WatchEvent", actor |-> Actor1, repo |-> Repo1,
          created_at |-> Ts(2, 0), public |-> "true", payload |-> "y"]>>

\* what FROM 'source_path' reads from the lake
SilverFile(path) ==
  IF path = "s3://silver/a"
  THEN <<SilverRow("1", "PushEvent", "1", "o/a", "u", Ts(1, 3600)),
         SilverRow("2", "PushEvent", "1", "o/a", "u", Ts(1, 7200)),
         SilverRow("3", "PushEvent", "1", "o/a", "u", Ts(2, 0))>>
  ELSE <<SilverRow("4", "WatchEvent", "2", "o/b", "v", Ts(2, 60))>>

IOException == [type |-> "duckdb.IOException", status |-> 0]
BinderException == [type |-> "duckdb.BinderException", status |-> 0]
AttributeError == [type |-> "AttributeError", status |-> 0]
TypeError == [type |-> "TypeError", status |-> 0]
\* what a statement or an export on the session raises when it fails
DuckDBErrors == {IOException, BinderException}

TableNames == {"gharchive_raw", "gharchive_clean", "gharchive_agg"}
\* a fresh session holds none of them
NoTables == [n \in TableNames |-> [exists |-> FALSE, rows |-> <<>>]]

\* INSERT INTO name ...: the rows are added to those the relation holds
SetTable_Append(t, name, rows) ==
  [t EXCEPT ![name] = [exists |-> TRUE, rows |-> t[name].rows \o rows]]

\* CREATE OR REPLACE TABLE name AS ...: the relation is replaced, the others stay
SetTable(t, name, rows) == [t EXCEPT ![name] = [exists |-> TRUE, rows |-> rows]]

\* How DataLakeTransformer(...) ends: it returns; duckdb.connect() raises; the
\* httpfs extension cannot be installed or loaded (the connection is then a local
\* of duckdb_connection that is dropped, self.con is never assigned); or the call
\* does not match __init__(self), as in run_batch_agg_data.
CtorOutcomes == {"ok", "connect_error", "extension_error", "type_error"}

\* DataLakeTransformer(...): a new object; the previous one, if any, is gone
TConstruct(outcome) ==
  /\ tpc \in {"unborn", "discarded"}
  /\ engines' = engines + 1
  /\ tcalls' = 0
  /\ closeLog' = <<>>
  /\ opLog' = {}
  /\ tables' = NoTables
  /\ tsource' = "none"
  /\ trel' = "none"
  /\ tfault' = NoError
  /\ tlogs' = <<>>
  /\ IF outcome = "ok"
     THEN /\ hasCon' = TRUE
          /\ con' = "open"
          /\ traised' = NoError
          /\ tpc' = "ready"
     ELSE /\ hasCon' = FALSE
          /\ con' = "absent"
          /\ traised' = IF outcome = "type_error" THEN TypeError ELSE IOException
          /\ tpc' = "ctor_failed"
  /\ UNCHANGED <<exported, pc, ctorVars, ingestVars, driverVars, funVars>>

\* __del__ closing whatever the object is
DelGuard_Always == TRUE

\* hasattr(self, 'con') in __del__
DelGuard == hasCon

\* The last reference to the object goes away and __del__ runs.  No call is
\* running then: a running method holds a reference to self.
Del ==
  /\ tpc \in {"ready", "ctor_failed"}
  /\ IF DelGuard
     THEN /\ closeLog' = Append(closeLog, con)
          /\ con' = IF con = "absent" THEN "absent" ELSE "closed"
     ELSE UNCHANGED <<closeLog, con>>
  /\ tpc' = "discarded"
  /\ UNCHANGED <<hasCon, opLog, tables, exported, tsource, trel, traised, tfault, tlogs,
                 tcalls, engines, pc, ctorVars, ingestVars, driverVars, funVars>>

\* The except clause of serialise_raw_data and of aggregate_silver_data:
\* self.logger.error(...) and then a bare raise.  The class sets no attribute
\* logger, so evaluating self.logger raises AttributeError inside the handler,
\* before anything is logged and before the raise is reached.
TransformExcept(e) == [raise |-> AttributeError, log |-> <<>>]

\* a step of the running call raised e, after the log records lg
TFail(e, lg) ==
  LET x == TransformExcept(e)
  IN /\ tfault' = e
     /\ traised' = x.raise
     /\ tlogs' = lg \o x.log
     /\ tpc' = "failed"

\* serialise_raw_data(source_path, sink_bucket, sink_key_path) is called
BeginSerialise(src) ==
  /\ tpc = "ready"
  /\ tpc' = "register"
  /\ tsource' = src
  /\ trel' = "none"
  /\ traised' = NoError
  /\ tfault' = NoError
  /\ tlogs' = <<>>
  /\ UNCHANGED <<hasCon, con, closeLog, opLog, tables, exported, tcalls, engines,
                 pc, ctorVars, ingestVars, driverVars, funVars>>

\* register_raw_gharchive(source_path)
RegisterRaw ==
  /\ tpc = "register"
  /\ opLog' = opLog \cup {con}
  /\ \/ /\ tables' = SetTable(tables, "gharchive_raw", RawFile(tsource))
        /\ trel' = "gharchive_raw"
        /\ tlogs' = Append(tlogs, Log("register_raw", "info", NoError))
        /\ tpc' = "clean"
        /\ UNCHANGED <<traised, tfault>>
     \/ \E e \in DuckDBErrors :
          /\ TFail(e, Append(tlogs, Log("register_raw", "info", NoError)))
          /\ UNCHANGED <<tables, trel>>
  /\ UNCHANGED <<hasCon, con, closeLog, exported, tsource, tcalls, engines,
                 pc, ctorVars, ingestVars, driverVars, funVars>>

\* clean_raw_gharchive(gharchive_raw_result.alias)
CleanRaw ==
  /\ tpc = "clean"
  /\ opLog' = opLog \cup {con}
  /\ \/ /\ tables' = SetTable(tables, "gharchive_clean", CleanQuery(tables[trel].rows))
        /\ trel' = "gharchive_clean"
        /\ tlogs' = Append(tlogs, Log("clean_raw", "info", NoError))
        /\ tpc' = "export_clean"
        /\ UNCHANGED <<traised, tfault>>
     \/ \E e \in DuckDBErrors :
          /\ TFail(e, Append(tlogs, Log("clean_raw", "info", NoError)))
          /\ UNCHANGED <<tables, trel>>
  /\ UNCHANGED <<hasCon, con, closeLog, exported, tsource, tcalls, engines,
                 pc, ctorVars, ingestVars, driverVars, funVars>>

\* _create_sink_path('clean', ...) and gharchive_clean_result.write_parquet(sink_path)
ExportClean ==
  /\ tpc = "export_clean"
  /\ opLog' = opLog \cup {con}
  /\ \/ /\ exported' = exported \cup {[stage |-> "clean", source |-> tsource,
                                        rows |-> tables[trel].rows]}
        /\ tlogs' = Append(tlogs, Log("serialise_raw_data", "info", NoError))
        /\ tpc' = "done"
        /\ UNCHANGED <<traised, tfault>>
     \/ \E e \in DuckDBErrors :
          /\ TFail(e, Append(tlogs, Log("serialise_raw_data", "info", NoError)))
          /\ UNCHANGED exported
  /\ UNCHANGED <<hasCon, con, closeLog, tables, tsource, trel, tcalls, engines,
                 pc, ctorVars, ingestVars, driverVars, funVars>>

\* aggregate_silver_data(source_path, sink_bucket, sink_key_path) is called
BeginAggregate(src) ==
  /\ tpc = "ready"
  /\ tpc' = "aggregate"
  /\ tsource' = src
  /\ trel' = "none"
  /\ traised' = NoError
  /\ tfault' = NoError
  /\ tlogs' = <<Log("aggregate_silver_data", "info", NoError)>>
  /\ UNCHANGED <<hasCon, con, closeLog, opLog, tables, exported, tcalls, engines,
                 pc, ctorVars, ingestVars, driverVars, funVars>>

\* aggregate_raw_gharchive(source_path)
AggregateRaw ==
  /\ tpc = "aggregate"
  /\ opLog' = opLog \cup {con}
  /\ \/ /\ tables' = SetTable(tables, "gharchive_agg", AggregateQuery(SilverFile(tsource)))
        /\ trel' = "gharchive_agg"
        /\ tpc' = "export_agg"
        /\ UNCHANGED <<traised, tfault, tlogs>>
     \/ \E e \in DuckDBErrors :
          /\ TFail(e, tlogs)
          /\ UNCHANGED <<tables, trel>>
  /\ UNCHANGED <<hasCon, con, closeLog, exported, tsource, tcalls, engines,
                 pc, ctorVars, ingestVars, driverVars, funVars>>

\* _create_sink_path('agg', ...) and gharchive_agg_result.write_parquet(sink_path)
ExportAgg ==
  /\ tpc = "export_agg"
  /\ opLog' = opLog \cup {con}
  /\ \/ /\ exported' = exported \cup {[stage |-> "agg", source |-> tsource,
                                        rows |-> tables[trel].rows]}
        /\ tlogs' = Append(tlogs, Log("aggregate_silver_data", "info", NoError))
        /\ tpc' = "done"
        /\ UNCHANGED <<traised, tfault>>
     \/ \E e \in DuckDBErrors :
          /\ TFail(e, Append(tlogs, Log("aggregate_silver_data", "info", NoError)))
          /\ UNCHANGED exported
  /\ UNCHANGED <<hasCon, con, closeLog, tables, tsource, trel, tcalls, engines,
                 pc, ctorVars, ingestVars, driverVars, funVars>>

\* the call is over: it returned, or its exception reached the caller
TReturn ==
  /\ tpc \in {"done", "failed"}
  /\ tpc' = "ready"
  /\ tcalls' = tcalls + 1
  /\ tsource' = "none"
  /\ trel' = "none"
  /\ traised' = NoError
  /\ tfault' = NoError
  /\ tlogs' = <<>>
  /\ UNCHANGED <<hasCon, con, closeLog, opLog, tables, exported, engines,
                 pc, ctorVars, ingestVars, driverVars, funVars>>

----------------------------------------------------------------------------
(* DataLakeTransformer._generate_export_filename and _create_sink_path *)

Str_clean == <<"c","l","e","a","n">>
Str_agg == <<"a","g","g">>
Str_parquet == <<"p","a","r","q","u","e","t">>
Str_csv == <<"c","s","v">>
Str_s3 == <<"s","3",":","/","/">>

\* datetime.now(): the wall clock when a file name is generated
Nows == {[year |-> 2024, month |-> 1, day |-> 5, hour |-> 3, minute |-> 7, second |-> 9],
         [year |-> 2023, month |-> 12, day |-> 31, hour |-> 23, minute |-> 59, second |-> 59],
         [year |-> 2025, month |-> 10, day |-> 10, hour |-> 10, minute |-> 10, second |-> 10]}

\* str(uuid.uuid4())
Uuids == {<<"3","f","2","a","9","c","1","e","-","7","b","4","d","-","4","e","8","a","-","9","c","3","b","-","1","a","2","b","3","c","4","d","5","e","6","f">>,
          <<"0","0","0","0","0","0","0","0","-","a","a","a","a","-","4","b","b","b","-","8","c","c","c","-","0","1","2","3","4","5","6","7","8","9","a","b">>}

\* partition_key: None, or a string (which may be empty)
NoneKey == [isNone |-> TRUE, value |-> <<>>]
Key(s) == [isNone |-> FALSE, value |-> s]
PartitionKeys == {NoneKey, Key(<<>>), Key(<<"p">>), Key(<<"2","0","2","4","-","0","1","-","0","5">>)}

\* datetime.strftime(now, "%Y%m%d%H%M%S")
StrftimeCompact(now) ==
  Pad(now.year, 4) \o Pad(now.month, 2) \o Pad(now.day, 2)
    \o Pad(now.hour, 2) \o Pad(now.minute, 2) \o Pad(now.second, 2)

\* list.insert(i, x): x goes before the element at (0-based) index i
ListInsert(list, i, x) ==
  SubSeq(list, 1, i) \o <<x>> \o SubSeq(list, i + 1, Len(list))

RECURSIVE Join(_, _)
\* sep.join(parts)
Join(sep, parts) ==
  IF parts = <<>> THEN <<>>
  ELSE IF Len(parts) = 1 THEN parts[1]
  ELSE parts[1] \o sep \o Join(sep, Tail(parts))

\* `if partition_key:`: neither None nor the empty string
Truthy(partition_key) == ~partition_key.isNone /\ partition_key.value # <<>>

\* DataLakeTransformer._generate_export_filename, with the clock and the uuid it draws
GenerateExportFilename(data_type, file_extension, partition_key, now, uuid) ==
  LET timestamp == StrftimeCompact(now)
      unique_id == SubSeq(uuid, 1, 8)
      filename_parts == <<data_type, timestamp, unique_id>>
      parts == IF Truthy(partition_key)
               THEN ListInsert(filename_parts, 2, partition_key.value)
               ELSE filename_parts
  IN Join(<<"_">>, parts) \o <<".">> \o file_extension

\* DataLakeTransformer._create_sink_path
CreateSinkPath(data_type, sink_bucket, sink_key_path, now, uuid) ==
  Str_s3 \o sink_bucket \o <<"/">> \o sink_key_path \o <<"/">>
    \o GenerateExportFilename(data_type, Str_parquet, NoneKey, now, uuid)

\* the arguments of _generate_export_filename, with what it draws from its environment
FilenameArgs ==
  [data_type : {Str_clean, Str_agg}, file_extension : {Str_parquet, Str_csv},
   partition_key : PartitionKeys, now : Nows, uuid : Uuids]

\* the arguments of _create_sink_path, likewise
SinkPathArgs ==
  [data_type : {Str_clean, Str_agg}, sink_bucket : {<<"s">>},
   sink_key_path : {<<"k">>, <<"g","/","e">>}, now : Nows, uuid : Uuids]

\* _generate_export_filename(data_type, file_extension, partition_key) is called
ApplyGenerateExportFilename ==
  /\ fname = "_generate_export_filename"
  /\ fres = NoResult
  /\ fres' = Value(GenerateExportFilename(farg.data_type, farg.file_extension,
                                          farg.partition_key, farg.now, farg.uuid))
  /\ UNCHANGED <<fname, farg, pc, ctorVars, ingestVars, transformerVars, driverVars>>

\* _create_sink_path(data_type, sink_bucket, sink_key_path) is called
ApplyCreateSinkPath ==
  /\ fname = "_create_sink_path"
  /\ fres = NoResult
  /\ fres' = Value(CreateSinkPath(farg.data_type, farg.sink_bucket, farg.sink_key_path,
                                  farg.now, farg.uuid))
  /\ UNCHANGED <<fname, farg, pc, ctorVars, ingestVars, transformerVars, driverVars>>

----------------------------------------------------------------------------
(* The batch drivers: main of run_batch_ingest_data.py and run_batch_agg_data.py *)

\* "gharchive/events", the base path both drivers pass
Str_gharchive_events == <<"g","h","a","r","c","h","i","v","e","/","e","v","e","n","t","s">>

\* calendar of datetime: leap years and the length of a month
IsLeap(y) == (y % 4 = 0 /\ y % 100 # 0) \/ y % 400 = 0
DaysInMonth(y, m) ==
  IF m = 2 THEN (IF IsLeap(y) THEN 29 ELSE 28)
  ELSE IF m \in {4, 6, 9, 11} THEN 30 ELSE 31

\* current_date + timedelta(days=1)
NextDay(d) ==
  IF d.day < DaysInMonth(d.year, d.month) THEN [d EXCEPT !.day = d.day + 1]
  ELSE IF d.month < 12 THEN [year |-> d.year, month |-> d.month + 1, day |-> 1]
  ELSE [year |-> d.year + 1, month |-> 1, day |-> 1]

\* a < b and a <= b on datetimes at midnight
DateLT(a, b) ==
  \/ a.year < b.year
  \/ a.year = b.year /\ a.month < b.month
  \/ a.year = b.year /\ a.month = b.month /\ a.day < b.day
DateLE(a, b) == a = b \/ DateLT(a, b)

\* current_date.replace(hour=hour)
Replace(d, h) == [year |-> d.year, month |-> d.month, day |-> d.day, hour |-> h]

\* range(24) handing out every other hour
NextHour_Skip(h) == h + 2

\* for hour in range(24): the hour after h
NextHour(h) == h + 1

\* --start-date values; the days after them cross the end of February in a common
\* and in a leap year, and the end of a year
DriverStarts == {[year |-> 2023, month |-> 2, day |-> 28],
                 [year |-> 2024, month |-> 2, day |-> 28],
                 [year |-> 2024, month |-> 12, day |-> 31]}

RECURSIVE AddDays(_, _)
AddDays(d, n) == IF n = 0 THEN d ELSE AddDays(NextDay(d), n - 1)

\* what parse_args returns: ranges of 1 .. MaxDays days, and ranges whose end
\* precedes their start
DriverRanges ==
  {[start_date |-> s, end_date |-> AddDays(s, n)] : s \in DriverStarts, n \in 0 .. (MaxDays - 1)}
    \cup {[start_date |-> NextDay(s), end_date |-> s] : s \in DriverStarts}

\* The environment DataLakeIngester("gharchive/events") finds: config.ini present or
\* not, complete or lacking an option.
DriverCtorArgs ==
  {[dataset_base_path |-> Str_gharchive_events, config_provider |-> "None",
    config_file_exists |-> f, config |-> c, data_collector |-> "None",
    data_storage |-> "None"] :
     f \in BOOLEAN,
     c \in {Options, Options \ {"datalake.bronze_bucket"}, Options \ {"aws.s3_secret_access_key"}}}


\* the except clause of main going on with the loop
DriverExcept_Continue(e, lg) ==
  /\ dlog' = Append(lg, Log("main", "error", e))
  /\ dpc' = "for"

\* except Exception as e: logging.error(...), after the log records lg; main ends
DriverExcept(e, lg) ==
  /\ dlog' = Append(lg, Log("main", "error", e))
  /\ dpc' = "done"

\* if args.end_date < args.start_date: parser.error(...), which exits the process
DriverValidate ==
  /\ dpc = "parsed"
  /\ dpc' = IF DateLT(dargs.end_date, dargs.start_date) THEN "usage_error" ELSE "try"
  /\ UNCHANGED <<script, dargs, current_date, hour, dcalls, dlog,
                 pc, ctorVars, ingestVars, transformerVars, funVars>>

\* ingester = DataLakeIngester("gharchive/events")
IngestDriverConstruct ==
  /\ script = "ingest"
  /\ dpc = "try"
  /\ Construct

\* the constructor raised (except clause), or returned: current_date = args.start_date
IngestDriverEnter ==
  /\ script = "ingest"
  /\ dpc = "try"
  /\ pc \in {"idle", "ctor_failed"}
  /\ IF pc = "ctor_failed"
     THEN /\ DriverExcept(raised, dlog)
          /\ UNCHANGED current_date
     ELSE /\ current_date' = dargs.start_date
          /\ dpc' = "while"
          /\ UNCHANGED dlog
  /\ UNCHANGED <<script, dargs, hour, dcalls, pc, ctorVars, ingestVars, transformerVars, funVars>>

\* while current_date <= args.end_date: log the day and enter the for loop
IngestDriverWhile ==
  /\ script = "ingest"
  /\ dpc = "while"
  /\ IF DateLE(current_date, dargs.end_date)
     THEN /\ dlog' = Append(dlog, Log("main.day", "info", NoError))
          /\ hour' = 0
          /\ dpc' = "for"
     ELSE /\ dpc' = "done"
          /\ UNCHANGED <<dlog, hour>>
  /\ UNCHANGED <<script, dargs, current_date, dcalls, pc, ctorVars, ingestVars,
                 transformerVars, funVars>>

\* for hour in range(24): log the hour about to be ingested; after the last hour,
\* current_date += timedelta(days=1)
IngestDriverFor ==
  /\ script = "ingest"
  /\ dpc = "for"
  /\ IF hour \in Hours
     THEN /\ dlog' = Append(dlog, Log("main.hour", "info", NoError))
          /\ dpc' = "call"
          /\ UNCHANGED current_date
     ELSE /\ current_date' = NextDay(current_date)
          /\ dpc' = "while"
          /\ UNCHANGED dlog
  /\ UNCHANGED <<script, dargs, hour, dcalls, pc, ctorVars, ingestVars, transformerVars, funVars>>

\* ingester.ingest_hourly_gharchive(process_date) is entered
IngestDriverCall ==
  /\ script = "ingest"
  /\ dpc = "call"
  /\ Begin(Replace(current_date, hour))

\* ingest_hourly_gharchive is over: it returned (log the success, next hour) or
\* raised (except clause)
IngestDriverReturn ==
  /\ script = "ingest"
  /\ dpc = "call"
  /\ Returning
  /\ IF pc = "stored"
     THEN /\ dcalls' = Append(dcalls, Call("ingest_hourly_gharchive", process_date, "returned"))
          /\ dlog' = Append(dlog, Log("main.ingested", "info", NoError))
          /\ hour' = NextHour(hour)
          /\ dpc' = "for"
     ELSE /\ dcalls' = Append(dcalls, Call("ingest_hourly_gharchive", process_date, "raised"))
          /\ DriverExcept(raised, dlog)
          /\ UNCHANGED hour
  /\ UNCHANGED <<script, dargs, current_date>>

\* the keyword parameters DataLakeTransformer.__init__(self) takes, and the keyword
\* arguments run_batch_agg_data passes to it
TransformerInitParams == {}
AggDriverCtorKwargs == {"dataset_base_path"}

\* how DataLakeTransformer(**kwargs) can end
CtorOutcomesFor(kwargs) ==
  IF kwargs \subseteq TransformerInitParams
  THEN {"ok", "connect_error", "extension_error"}
  ELSE {"type_error"}

\* the positional parameters of aggregate_silver_data after self, and the
\* positional arguments run_batch_agg_data passes to it
AggregateSilverDataParams == <<"source_path", "sink_bucket", "sink_key_path">>
AggDriverCallArguments == <<"current_date">>

\* Python binding the arguments of a call to the parameters (none has a default)
BindError(params, arguments) ==
  IF Len(arguments) = Len(params) THEN NoError ELSE TypeError

\* transformer = DataLakeTransformer(dataset_base_path='gharchive/events')
AggDriverConstruct ==
  /\ script = "agg"
  /\ dpc = "try"
  /\ \E outcome \in CtorOutcomesFor(AggDriverCtorKwargs) : TConstruct(outcome)

\* The rest of main's try block and its except clause.  When the constructor
\* raised, the except clause logs the error and main ends.  Otherwise
\* current_date = args.start_date, which is not after args.end_date, the day is
\* logged and aggregate_silver_data(current_date) is called: the call does not
\* bind, so it raises TypeError before the method's body and the except clause
\* ends main.
AggDriverRun ==
  /\ script = "agg"
  /\ dpc = "try"
  /\ tpc \in {"ready", "ctor_failed"}
  /\ IF tpc = "ctor_failed"
     THEN /\ DriverExcept(traised, dlog)
          /\ UNCHANGED <<current_date, dcalls>>
     ELSE LET e == BindError(AggregateSilverDataParams, AggDriverCallArguments)
              lg == Append(dlog, Log("main.day", "info", NoError))
          IN /\ current_date' = dargs.start_date
             /\ IF e # NoError
                THEN /\ dcalls' = Append(dcalls, Call("aggregate_silver_data",
                                                      dargs.start_date, "raised"))
                     /\ DriverExcept(e, lg)
                ELSE /\ dlog' = lg
                     /\ dpc' = "aggregating"
                     /\ UNCHANGED dcalls
  /\ UNCHANGED <<script, dargs, hour, pc, ctorVars, ingestVars, transformerVars, funVars>>

\* main is over and the transformer it made, if any, is discarded
AggDriverExit ==
  /\ script = "agg"
  /\ dpc = "done"
  /\ Del

----------------------------------------------------------------------------
(* Specifications *)

IngestIdle ==
  /\ process_date = NoDate
  /\ data_filename = <<>>
  /\ data_url = <<>>
  /\ s3_key = <<>>
  /\ data = None
  /\ response = NoResponse
  /\ calls = <<>>
  /\ logs = <<>>
  /\ raised = NoError
  /\ fault = NoError
  /\ objectStore = {}
  /\ lastSuccess = {}
  /\ unknownKeys = {}
  /\ previous = {}
  /\ runs = 0

\* no batch driver runs in this process
NoDriver ==
  /\ script = "none"
  /\ dargs = NoRange
  /\ current_date = NoDay
  /\ hour = 0
  /\ dpc = "none"
  /\ dcalls = <<>>
  /\ dlog = <<>>

\* no pure function is under study
NoFunction ==
  /\ fname = "none"
  /\ farg = NoResult
  /\ fres = NoResult

TransformerUnborn ==
  /\ tpc = "unborn"
  /\ hasCon = FALSE
  /\ con = "absent"
  /\ closeLog = <<>>
  /\ opLog = {}
  /\ tables = NoTables
  /\ exported = {}
  /\ tsource = "none"
  /\ trel = "none"
  /\ traised = NoError
  /\ tfault = NoError
  /\ tlogs = <<>>
  /\ tcalls = 0
  /\ engines = 0

\* An ingester as the batch driver builds it, DataLakeIngester(base): default
\* provider, collector and storage, and a configuration that holds what is required.
Init ==
  /\ \E a \in CtorArgs :
       /\ a.config_provider = "None" /\ a.config_file_exists
       /\ a.data_collector = "None" /\ a.data_storage = "None"
       /\ a.config = Options
       /\ args = a
       /\ ingester = InitIngester(a).ingester
       /\ s3ClientBuilt = InitIngester(a).clientBuilt
  /\ pc = "idle"
  /\ IngestIdle
  /\ TransformerUnborn
  /\ NoDriver
  /\ NoFunction

\* a caller that ingests, and re-ingests, a few hours
Next ==
  \/ \E pd \in RerunDates : runs < MaxRuns /\ Begin(pd)
  \/ Collect
  \/ Store
  \/ Return

Spec == Init /\ [][Next]_vars

\* a caller that ingests any hour of any day, from an archive whose files do not change
NextHourly ==
  \/ \E pd \in ProcessDates : runs < MaxHourlyRuns /\ Begin(pd)
  \/ CollectFrom(FixedBodies)
  \/ Store
  \/ Return

SpecHourly == Init /\ [][NextHourly]_vars

\* DataLakeIngester(...) is about to be called, with any arguments
InitConstruct ==
  /\ pc = "new"
  /\ args \in CtorArgs
  /\ ingester = NoIngester
  /\ s3ClientBuilt = FALSE
  /\ IngestIdle
  /\ TransformerUnborn
  /\ NoDriver
  /\ NoFunction

NextConstruct == Construct

SpecConstruct == InitConstruct /\ [][NextConstruct]_vars

\* no transformer yet, and no ingester in this process
InitTransformer ==
  /\ pc = "new"
  /\ args = NoArgs
  /\ ingester = NoIngester
  /\ s3ClientBuilt = FALSE
  /\ IngestIdle
  /\ TransformerUnborn
  /\ NoDriver
  /\ NoFunction

NextTransformer ==
  \/ \E outcome \in CtorOutcomes : engines < MaxEngines /\ TConstruct(outcome)
  \/ Del
  \/ \E src \in SourcePaths : tcalls < MaxCalls /\ BeginSerialise(src)
  \/ RegisterRaw
  \/ CleanRaw
  \/ ExportClean
  \/ \E src \in SilverPaths : tcalls < MaxCalls /\ BeginAggregate(src)
  \/ AggregateRaw
  \/ ExportAgg
  \/ TReturn

SpecTransformer == InitTransformer /\ [][NextTransformer]_vars

\* no ingester, transformer or driver: a function is about to be applied
NoProgram ==
  /\ pc = "new"
  /\ args = NoArgs
  /\ ingester = NoIngester
  /\ s3ClientBuilt = FALSE
  /\ IngestIdle
  /\ TransformerUnborn
  /\ NoDriver

\* _generate_export_filename or _create_sink_path is about to be called
InitFilename ==
  /\ NoProgram
  /\ \/ fname = "_generate_export_filename" /\ farg \in FilenameArgs
     \/ fname = "_create_sink_path" /\ farg \in SinkPathArgs
  /\ fres = NoResult

NextFilename ==
  \/ ApplyGenerateExportFilename
  \/ ApplyCreateSinkPath

SpecFilename == InitFilename /\ [][NextFilename]_vars

\* clean_raw_gharchive or aggregate_raw_gharchive is about to run on a relation
InitRelations ==
  /\ NoProgram
  /\ \/ fname = "clean_raw_gharchive" /\ farg \in Relations(RawRows)
     \/ fname = "aggregate_raw_gharchive" /\ farg \in Relations(SilverRows)
  /\ fres = NoResult

NextRelations ==
  \/ ApplyClean
  \/ ApplyAggregate

SpecRelations == InitRelations /\ [][NextRelations]_vars

\* A batch driver starts: parse_args returned the date range; nothing is built yet.
InitDrivers ==
  /\ script \in {"ingest", "agg"}
  /\ dargs \in DriverRanges
  /\ dpc = "parsed"
  /\ current_date = NoDay
  /\ hour = 0
  /\ dcalls = <<>>
  /\ dlog = <<>>
  /\ pc = "new"
  /\ args \in (IF script = "ingest" THEN DriverCtorArgs ELSE {NoArgs})
  /\ ingester = NoIngester
  /\ s3ClientBuilt = FALSE
  /\ IngestIdle
  /\ TransformerUnborn
  /\ NoFunction

NextDrivers ==
  \/ DriverValidate
  \/ IngestDriverConstruct
  \/ IngestDriverEnter
  \/ IngestDriverWhile
  \/ IngestDriverFor
  \/ IngestDriverCall
  \/ dpc = "call" /\ CollectFrom(FixedBodies)
  \/ dpc = "call" /\ Store
  \/ IngestDriverReturn
  \/ AggDriverConstruct
  \/ AggDriverRun
  \/ AggDriverExit

SpecDrivers == InitDrivers /\ [][NextDrivers]_vars

\* main runs to its end: each statement that can run does run
SpecDriversFair == SpecDrivers /\ WF_vars(NextDrivers)

----------------------------------------------------------------------------
(* Reading keys and file names back *)

RECURSIVE Split(_, _)
\* the pieces of s between the occurrences of the character c
Split(s, c) ==
  IF \A i \in 1 .. Len(s) : s[i] # c
  THEN <<s>>
  ELSE LET i == CHOOSE k \in 1 .. Len(s) : s[k] = c /\ \A j \in 1 .. (k - 1) : s[j] # c
       IN <<SubSeq(s, 1, i - 1)>> \o Split(SubSeq(s, i + 1, Len(s)), c)

IsDigits(s) == \A i \in 1 .. Len(s) : \E n \in 0 .. 9 : Digits[n + 1] = s[i]

RECURSIVE ParseInt(_)
\* the number a string of decimal digits denotes
ParseInt(s) ==
  IF s = <<>> THEN 0
  ELSE 10 * ParseInt(SubSeq(s, 1, Len(s) - 1))
         + (CHOOSE n \in 0 .. 9 : Digits[n + 1] = s[Len(s)])

\* s is the number n written with exactly w digits
IsPadded(s, n, w) == Len(s) = w /\ IsDigits(s) /\ ParseInt(s) = n

\* s is the number n written with no leading zero
IsUnpadded(s, n) ==
  /\ Len(s) >= 1 /\ IsDigits(s) /\ ParseInt(s) = n
  /\ (Len(s) > 1 => s[1] # "0")

InRun == pc \in {"url_derived", "collected", "stored", "failed"}

CallsOf(op) == {i \in 1 .. Len(calls) : calls[i].op = op}

ObjectsAt(key) == {o \in objectStore : o.key = key}

----------------------------------------------------------------------------
(* Claims about the ingester *)

\* C1: for every timestamp (every hour 0..23) the source file name is
\* <YYYY-MM-DD>-<H>.json.gz with the hour unpadded, the URL is the archive host
\* followed by that name, the sink key is <base_path>/<YYYY-MM-DD>/<HH>/<filename>
\* with a two-digit zero-padded hour segment, and every collect is passed that URL
\* and every store that key.
C1_SourceUnpaddedSinkPadded ==
  InRun =>
    LET h == process_date.hour
        base == Split(ingester.dataset_base_path, "/")
        segs == Split(s3_key, "/")
        n == Len(segs)
        name == Split(data_filename, "-")
        ext == Len(Str_json_gz)
    IN /\ n = Len(base) + 3
       /\ SubSeq(segs, 1, n - 3) = base
       /\ LET ymd == Split(segs[n - 2], "-")
          IN /\ Len(ymd) = 3
             /\ IsPadded(ymd[1], process_date.year, 4)
             /\ IsPadded(ymd[2], process_date.month, 2)
             /\ IsPadded(ymd[3], process_date.day, 2)
             /\ Len(name) = 4
             /\ SubSeq(name, 1, 3) = ymd
       /\ IsPadded(segs[n - 1], h, 2)
       /\ segs[n] = data_filename
       /\ Len(name[4]) > ext
       /\ SubSeq(name[4], Len(name[4]) - ext + 1, Len(name[4])) = Str_json_gz
       /\ IsUnpadded(SubSeq(name[4], 1, Len(name[4]) - ext), h)
       /\ (h = 3 => /\ SubSeq(name[4], 1, Len(name[4]) - ext) = <<"3">>
                    /\ segs[n - 1] = <<"0", "3">>)
       /\ data_url = Str_http \o data_filename
       /\ \A i \in CallsOf("collect") : calls[i].arg = data_url
       /\ \A i \in CallsOf("store") : calls[i].arg = s3_key

\* C1 witness: hour 3 of a day was ingested and its object is in the bucket
C1_Witness ==
  /\ pc = "stored"
  /\ process_date.hour = 3
  /\ CallsOf("store") # {}
  /\ ObjectsAt(s3_key) # {}

\* C2: store is called only after collect returned in the same invocation, for
\* the URL of the same timestamp; when collect raises, store is not called, the
\* bucket is not written and the invocation is FAILED.
C2_StoreOnlyAfterCollect ==
  /\ \A i \in CallsOf("store") :
       \E j \in CallsOf("collect") :
         /\ j < i
         /\ calls[j].result = "returned"
         /\ calls[j].arg = DataUrl(DataFilename(process_date))
  /\ \A j \in CallsOf("collect") :
       calls[j].result = "raised" =>
         /\ CallsOf("store") = {}
         /\ pc = "failed"
         /\ previous = {}

\* C2 witness: collect raised and the invocation failed without calling store
C2_Witness ==
  /\ pc = "failed"
  /\ Len(calls) = 1
  /\ calls[1].op = "collect"
  /\ calls[1].result = "raised"

\* C3 as stated: for every key that some store wrote successfully, the bucket
\* holds exactly one object under it and its content is that of the last
\* successful store.
C3_AsStated ==
  \A ls \in lastSuccess : ObjectsAt(ls.key) = {ls}

\* C3 amended: every store of an invocation goes to the key of its timestamp; a
\* key never holds more than one object, and an object is the whole content of one
\* upload (no append, no merge); right after a successful store the key holds
\* what was uploaded; a key stored successfully keeps exactly one object, which
\* is the last successfully stored content unless a later upload to it raised.
C3_OverwriteSameKey ==
  /\ \A o1, o2 \in objectStore : o1.key = o2.key => o1 = o2
  /\ \A o \in objectStore : o.body \in Bodies
  /\ pc = "stored" => ObjectsAt(s3_key) = {[key |-> s3_key, body |-> data.content]}
  /\ \A ls \in lastSuccess :
       /\ Cardinality(ObjectsAt(ls.key)) = 1
       /\ ls.key \notin unknownKeys => ObjectsAt(ls.key) = {ls}

\* C3 witness: a successful store replaced different content the key held
C3_Witness ==
  /\ pc = "stored"
  /\ previous # {}
  /\ \A o \in previous : o.body # data.content
  /\ ObjectsAt(s3_key) = {[key |-> s3_key, body |-> data.content]}

\* C4: one invocation calls collect at most once and store at most once, and
\* exactly once each when it succeeds.
C4_NoRetries ==
  /\ Cardinality(CallsOf("collect")) <= 1
  /\ Cardinality(CallsOf("store")) <= 1
  /\ pc = "stored" =>
       /\ Cardinality(CallsOf("collect")) = 1
       /\ Cardinality(CallsOf("store")) = 1

\* C4 witness: the upload raised and the invocation ended with one call of each
C4_Witness ==
  /\ pc = "failed"
  /\ Len(calls) = 2
  /\ calls[2].op = "store"
  /\ calls[2].result = "raised"

\* C5: when collect or store raises E, the invocation is FAILED, the caller
\* receives E itself, ingest_hourly_gharchive logged E, S3DataStorage.store logged
\* E when it came from the upload, and no success was logged by the ingester; a
\* successful invocation had no failure.
C5_FailuresPropagateUnchanged ==
  /\ (InRun /\ fault # NoError) =>
       /\ pc = "failed"
       /\ raised = fault
       /\ \E i \in 1 .. Len(logs) : logs[i] = Log("ingest", "error", fault)
       /\ \A i \in 1 .. Len(logs) : logs[i] # Log("ingest", "info", NoError)
       /\ \A j \in CallsOf("store") :
            \E i \in 1 .. Len(logs) : logs[i] = Log("store", "error", fault)
  /\ pc = "failed" => fault # NoError
  /\ pc = "stored" => (fault = NoError /\ raised = NoError)

\* C5 witness: the upload raised S3UploadFailedError and the caller received it
C5_Witness ==
  /\ pc = "failed"
  /\ fault = S3UploadFailedError
  /\ raised = S3UploadFailedError
  /\ CallsOf("store") # {}

\* C6 as stated: for every response with a status in 200..299, collect returns
\* (does not raise) a stream that is not None, is positioned at its start and
\* holds the whole response body.
C6_Every2xxReturnsStream ==
  (pc = "collected" /\ response.status \in 200 .. 299) =>
    /\ ~data.isNone
    /\ data.pos = 0
    /\ data.content = response.content

\* C7 as stated: for every response with a status outside 200..299, collect
\* raises an error carrying the status, no stream reaches the caller and store is
\* not called.
C7_EveryNon2xxRaises ==
  (InRun /\ response # NoResponse /\ response.status \notin 200 .. 299) =>
    /\ pc = "failed"
    /\ raised = HTTPError(response.status)
    /\ CallsOf("store") = {}

\* the options a default S3DataStorage cannot be built without
RequiredOptions == {"aws.s3_access_key_id", "aws.s3_secret_access_key", "datalake.bronze_bucket"}

\* the constructor ran on a configuration that was loaded and lacks a required option
ConstructedOnLackingConfig ==
  /\ pc \in {"idle", "ctor_failed"}
  /\ raised # FileNotFoundError
  /\ ~(RequiredOptions \subseteq args.config)

\* the constructor failed on the configuration, before anything else happened
FailedFastOnConfig ==
  /\ pc = "ctor_failed"
  /\ raised \in {KeyErrorCredentials, KeyErrorBucket}
  /\ raised = KeyErrorCredentials <=>
       ~({"aws.s3_access_key_id", "aws.s3_secret_access_key"} \subseteq args.config)
  /\ ~s3ClientBuilt
  /\ ingester = NoIngester
  /\ calls = <<>>
  /\ objectStore = {}

\* C8 as stated: whenever the configuration lacks the access key, the secret key
\* or the bronze bucket name, constructing the Ingester fails with the
\* configuration error before a storage client is built or anything is collected
\* or stored.
C8_AsStated == ConstructedOnLackingConfig => FailedFastOnConfig

\* C8 amended: the same, when the Ingester is constructed without an injected
\* data_storage (with an injected one the constructor reads no credential and no
\* bucket name, and succeeds).
C8_MissingConfigFailsFast ==
  /\ (ConstructedOnLackingConfig /\ args.data_storage = "None") => FailedFastOnConfig
  /\ (ConstructedOnLackingConfig /\ args.data_storage # "None") =>
       (pc = "idle" /\ ~s3ClientBuilt /\ calls = <<>>)

\* C8 witness: no storage injected, the bucket name missing: the constructor failed
C8_Witness ==
  /\ pc = "ctor_failed"
  /\ args.data_storage = "None"
  /\ "datalake.bronze_bucket" \notin args.config
  /\ raised = KeyErrorBucket

----------------------------------------------------------------------------
(* The frame of an ingestion *)

\* what a step of an invocation for process_date may change: the object under
\* the key derived from process_date, and nothing else of the bucket; no key
\* loses its object; the Ingester keeps its fields
IngestStepFrame ==
  LET k == GenerateSinkKey(process_date, DataFilename(process_date),
                           ingester.dataset_base_path)
  IN /\ ingester' = ingester
     /\ args' = args
     /\ s3ClientBuilt' = s3ClientBuilt
     /\ \A o \in objectStore : \E n \in objectStore' : n.key = o.key
     /\ IF InRun
        THEN {o \in objectStore' : o.key # k} = {o \in objectStore : o.key # k}
        ELSE objectStore' = objectStore

\* C18: every step of an invocation of ingest_hourly_gharchive for timestamp t, in
\* a run that succeeds or fails, leaves the objects under every key other than
\* the key derived from t as they are, removes no object (no delete, no cleanup
\* after a failure) and leaves the Ingester's fields unchanged.
C18_OtherKeysAndFieldsUntouched == [][IngestStepFrame]_vars

\* C18 witness: an upload raised after the bucket took the object; the object
\* stays under the timestamp's key, next to the object of another timestamp
C18_Witness ==
  /\ pc = "failed"
  /\ fault \in UploadErrors
  /\ ObjectsAt(s3_key) # {}
  /\ previous = {}
  /\ \E o \in objectStore : o.key # s3_key

----------------------------------------------------------------------------
(* Claims about the transformer *)

\* C9 as stated: when a step of serialise_raw_data or aggregate_silver_data raises
\* E, the call aborts there and the caller receives E itself, not another error.
C9_FailurePropagatesUnchanged ==
  (tpc = "failed" /\ tfault # NoError) => traised = tfault

\* C10: the session is opened at construction and closed exactly once, by the
\* discard of the transformer: close is attempted at most once, only on an open
\* session (never on a closed one, never when none was opened), a discarded
\* transformer that had a session has closed it, a live transformer's session is
\* open, and every statement ran on an open session.
C10_SessionClosedOnce ==
  /\ Len(closeLog) <= 1
  /\ \A i \in 1 .. Len(closeLog) : closeLog[i] = "open"
  /\ opLog \subseteq {"open"}
  /\ tpc = "discarded" =>
       /\ hasCon => (con = "closed" /\ Len(closeLog) = 1)
       /\ ~hasCon => (con = "absent" /\ closeLog = <<>>)
  /\ tpc \notin {"unborn", "discarded", "ctor_failed"} =>
       (hasCon /\ con = "open" /\ closeLog = <<>>)
  /\ tpc = "ctor_failed" => (~hasCon /\ con = "absent" /\ closeLog = <<>>)

\* C10 witness: a transformer ran statements on its session and was discarded
C10_Witness ==
  /\ tpc = "discarded"
  /\ opLog = {"open"}
  /\ closeLog = <<"open">>
  /\ con = "closed"

----------------------------------------------------------------------------
(* Claims about the batch drivers *)

\* days of a year and of its months (years 1901 .. 2099), counted independently of
\* the driver's date arithmetic
YearLength(y) == IF y % 4 = 0 THEN 366 ELSE 365
MonthTable(y) == <<31, IF YearLength(y) = 366 THEN 29 ELSE 28, 31, 30, 31, 30,
                   31, 31, 30, 31, 30, 31>>

RECURSIVE DaysBeforeYear(_)
DaysBeforeYear(y) == IF y <= 2020 THEN 0 ELSE DaysBeforeYear(y - 1) + YearLength(y - 1)

RECURSIVE DaysBeforeMonth(_, _)
DaysBeforeMonth(y, m) == IF m <= 1 THEN 0 ELSE DaysBeforeMonth(y, m - 1) + MonthTable(y)[m - 1]

\* the day's number on the calendar
Ordinal(d) == DaysBeforeYear(d.year) + DaysBeforeMonth(d.year, d.month) + d.day

ValidDate(d) == d.month \in 1 .. 12 /\ d.day \in 1 .. MonthTable(d.year)[d.month]

\* days in the inclusive range the driver was given
DaysInRange == Ordinal(dargs.end_date) - Ordinal(dargs.start_date) + 1

\* the timestamps ingest_hourly_gharchive was called with, in call order, the
\* call still running included
DriverUnits ==
  [k \in 1 .. Len(dcalls) |-> dcalls[k].arg] \o (IF InRun THEN <<process_date>> ELSE <<>>)

\* the ingestion driver's calls are the hours of the range in chronological order,
\* one at a time
IngestDriverInOrder ==
  script = "ingest" =>
    LET u == DriverUnits
        first == Ordinal(dargs.start_date)
        last == Ordinal(dargs.end_date)
        ord == [k \in 1 .. Len(u) |-> Ordinal(u[k])]
    IN /\ \A k \in 1 .. Len(u) :
            /\ ValidDate(u[k])
            /\ ord[k] = first + ((k - 1) \div 24)
            /\ u[k].hour = (k - 1) % 24
            /\ ord[k] <= last
       /\ \A k \in 1 .. (Len(u) - 1) :
            \/ ord[k] < ord[k + 1]
            \/ ord[k] = ord[k + 1] /\ u[k].hour < u[k + 1].hour
       /\ InRun => dpc = "call"
       /\ runs = Len(dcalls)
       /\ (dpc = "done" /\ pc = "idle" /\ \A k \in 1 .. Len(dcalls) : dcalls[k].result = "returned")
            => (Len(dcalls) = 24 * (last - first + 1) /\ Len(u) = Len(dcalls))

\* C11: in a run of the ingestion driver ingest_hourly_gharchive is called for the
\* hours 0..23 of each day from start to end in strictly ascending chronological
\* order, each hour once, each call over before the next begins; with no failure
\* 24 x (number of days) calls are made; and the run terminates.
C11_HoursInAscendingOrder == []IngestDriverInOrder /\ <>(dpc \in {"done", "usage_error"})

\* C11 witness: a run over two days across the end of a leap February ended after
\* 48 calls that all returned
C11_Witness ==
  /\ script = "ingest"
  /\ dpc = "done"
  /\ dargs.start_date = [year |-> 2024, month |-> 2, day |-> 28]
  /\ Len(dcalls) = 48
  /\ dcalls[48] = Call("ingest_hourly_gharchive",
                       [year |-> 2024, month |-> 2, day |-> 29, hour |-> 23], "returned")

\* C12: once ingest_hourly_gharchive raised in a run of the ingestion driver, the
\* failure was logged by the driver, that call is the run's last (no later hour or
\* day is ingested) and the run is over.
C12_FailureStopsTheRun ==
  script = "ingest" =>
    \A k \in 1 .. Len(dcalls) :
      dcalls[k].result = "raised" =>
        /\ k = Len(dcalls)
        /\ ~InRun
        /\ dpc = "done"
        /\ dlog # <<>>
        /\ dlog[Len(dlog)].who = "main"
        /\ dlog[Len(dlog)].level = "error"
        /\ dlog[Len(dlog)].err # NoError
        /\ Cardinality({i \in 1 .. Len(dlog) : dlog[i].who = "main.hour"}) = k
        /\ Cardinality({i \in 1 .. Len(dlog) : dlog[i].who = "main.ingested"}) = k - 1

\* C12 witness: in a range of two days the sixth hour failed and the run ended there
C12_Witness ==
  /\ script = "ingest"
  /\ dpc = "done"
  /\ dargs.start_date # dargs.end_date
  /\ Len(dcalls) = 6
  /\ dcalls[6].result = "raised"
  /\ dcalls[6].arg.hour = 5

\* C13 as stated: a run of the aggregation driver over a valid range of d days in
\* which no transformation failed has made d calls of aggregate_silver_data, one
\* per day in ascending order.
C13_OneAggregationPerDay ==
  (script = "agg" /\ dpc = "done" /\ tfault = NoError) =>
    /\ Len(dcalls) = DaysInRange
    /\ \A k \in 1 .. Len(dcalls) :
         /\ dcalls[k].op = "aggregate_silver_data"
         /\ dcalls[k].result = "returned"
         /\ Ordinal(dcalls[k].arg) = Ordinal(dargs.start_date) + k - 1

----------------------------------------------------------------------------
(* Claims about the transformer's pure functions *)

\* s is <id>.<extension> with an id of n characters
IsIdDotExtension(s, n, extension) ==
  /\ Len(s) = n + 1 + Len(extension)
  /\ s[n + 1] = "."
  /\ SubSeq(s, n + 2, Len(s)) = extension

\* s is the moment `now` written as YYYYMMDDHHMMSS
IsCompactTimestamp(s, now) ==
  /\ Len(s) = 14
  /\ IsPadded(SubSeq(s, 1, 4), now.year, 4)
  /\ IsPadded(SubSeq(s, 5, 6), now.month, 2)
  /\ IsPadded(SubSeq(s, 7, 8), now.day, 2)
  /\ IsPadded(SubSeq(s, 9, 10), now.hour, 2)
  /\ IsPadded(SubSeq(s, 11, 12), now.minute, 2)
  /\ IsPadded(SubSeq(s, 13, 14), now.second, 2)

\* C14 as stated: _generate_export_filename returns <stage>_<timestamp>_<shortid>.parquet
\* with a short id of 8 characters, and <stage>_<partition_key>_<timestamp>_<shortid>.parquet
\* when a partition key is given.
C14_PartitionKeyBeforeTimestamp ==
  (fname = "_generate_export_filename" /\ fres # NoResult /\ farg.file_extension = Str_parquet) =>
    LET segs == Split(fres.value, "_")
        n == Len(segs)
        given == ~farg.partition_key.isNone /\ farg.partition_key.value # <<>>
    IN /\ n = IF given THEN 4 ELSE 3
       /\ segs[1] = farg.data_type
       /\ given => segs[2] = farg.partition_key.value
       /\ IsCompactTimestamp(segs[n - 1], farg.now)
       /\ IsIdDotExtension(segs[n], 8, Str_parquet)
       /\ SubSeq(segs[n], 1, 8) = SubSeq(farg.uuid, 1, 8)

NineColumns == {"event_id", "user_id", "user_name", "user_display_name", "event_type",
                "repo_id", "repo_name", "repo_url", "event_date"}

\* row r of the input belongs to the group output row o stands for: same event
\* type, same repository id, name and url, same day (or both dates NULL)
InGroupOf(r, o) ==
  /\ r.event_type = o.event_type
  /\ r.repo_id = o.repo_id
  /\ r.repo_name = o.repo_name
  /\ r.repo_url = o.repo_url
  /\ r.event_date.null = o.event_date.null
  /\ r.event_date.day = o.event_date.day

RECURSIVE SumOfCounts(_)
SumOfCounts(rows) ==
  IF rows = <<>> THEN 0 ELSE rows[1].event_count + SumOfCounts(Tail(rows))

\* C15: for every input relation (event dates being timestamps or NULL), the
\* aggregation has one row per distinct (event_type, repo_id, repo_name, repo_url,
\* day) group of the input and none else, each with the date truncated to the
\* day and event_count equal to the number of input rows of the group, and the
\* counts add up to the number of input rows.
C15_AggregateCountsGroups ==
  (fname = "aggregate_raw_gharchive" /\ fres # NoResult) =>
    LET rows == farg
        out == fres.value
    IN /\ \A i, j \in 1 .. Len(out) : InGroupOf(out[i], out[j]) => i = j
       /\ \A k \in 1 .. Len(rows) : \E i \in 1 .. Len(out) : InGroupOf(rows[k], out[i])
       /\ \A i \in 1 .. Len(out) :
            /\ DOMAIN out[i] = {"event_type", "repo_id", "repo_name", "repo_url",
                                "event_date", "event_count"}
            /\ out[i].event_date.secs = 0
            /\ out[i].event_count >= 1
            /\ out[i].event_count
                 = Cardinality({k \in 1 .. Len(rows) : InGroupOf(rows[k], out[i])})
       /\ SumOfCounts(out) = Len(rows)

\* C15 witness: three events, two of them on the same day at different times and
\* with different event ids, aggregated into a group of two and a group of one
C15_Witness ==
  /\ fname = "aggregate_raw_gharchive"
  /\ fres # NoResult
  /\ Len(farg) = 3
  /\ \E a, b \in 1 .. 3 :
       /\ farg[a].event_date = Ts(1, 3600)
       /\ farg[b].event_date = Ts(1, 7200)
       /\ farg[a].event_id # farg[b].event_id
  /\ Len(fres.value) = 2
  /\ \E i \in 1 .. 2 : fres.value[i].event_count = 2

\* C16: for every raw relation the cleaned relation has exactly the nine named
\* columns whatever else the raw rows hold, one row per raw row (none dropped,
\* none added, repeated rows kept), and in each the projected values of that raw
\* row, unchanged.
C16_CleanIsProjection ==
  (fname = "clean_raw_gharchive" /\ fres # NoResult) =>
    LET raw == farg
        out == fres.value
    IN /\ Len(out) = Len(raw)
       /\ \A i \in 1 .. Len(out) :
            /\ DOMAIN out[i] = NineColumns
            /\ out[i].event_id = raw[i].id
            /\ out[i].user_id = raw[i].actor.id
            /\ out[i].user_name = raw[i].actor.login
            /\ out[i].user_display_name = raw[i].actor.display_login
            /\ out[i].event_type = raw[i].type
            /\ out[i].repo_id = raw[i].repo.id
            /\ out[i].repo_name = raw[i].repo.name
            /\ out[i].repo_url = raw[i].repo.url
            /\ out[i].event_date = raw[i].created_at

\* C16 witness: a raw relation with a repeated row, a NULL display_login and
\* different payloads was cleaned, and the repeated row is there twice
C16_Witness ==
  /\ fname = "clean_raw_gharchive"
  /\ fres # NoResult
  /\ Len(farg) = 3
  /\ farg[1] = farg[2]
  /\ farg[3].payload # farg[1].payload
  /\ farg[3].actor.display_login = NULL
  /\ Len(fres.value) = 3
  /\ fres.value[1] = fres.value[2]

\* C17: serialise_raw_data registers the raw relation, cleans it and exports it, in
\* that order, each relation replacing the one of the same name: whatever calls
\* the transformer served before, the relation each step leaves and the file the
\* call exports hold the (cleaned) rows of this call's source_path and no others.
C17_ExportHoldsOwnSourceOnly ==
  /\ \A f \in exported :
       f.stage = "clean" =>
         /\ f.source \in SourcePaths
         /\ Len(f.rows) = Len(RawFile(f.source))
         /\ f.rows = CleanQuery(RawFile(f.source))
  /\ tpc = "clean" =>
       (trel = "gharchive_raw" /\ tables["gharchive_raw"].rows = RawFile(tsource))
  /\ tpc = "export_clean" =>
       /\ trel = "gharchive_clean"
       /\ tables["gharchive_raw"].rows = RawFile(tsource)
       /\ tables["gharchive_clean"].rows = CleanQuery(RawFile(tsource))
  /\ (tpc = "done" /\ tsource \in SourcePaths) =>
       /\ tlogs = <<Log("register_raw", "info", NoError), Log("clean_raw", "info", NoError),
                    Log("serialise_raw_data", "info", NoError)>>
       /\ [stage |-> "clean", source |-> tsource, rows |-> CleanQuery(RawFile(tsource))]
            \in exported

\* C17 witness: one transformer serialised file a and then file b, whose export
\* holds the one cleaned row of b while a's export holds a's two
C17_Witness ==
  /\ engines = 1
  /\ tcalls = 1
  /\ tpc = "done"
  /\ tsource = "s3://bronze/b"
  /\ \E f \in exported : f.stage = "clean" /\ f.source = "s3://bronze/a" /\ Len(f.rows) = 2
  /\ \E f \in exported : f.stage = "clean" /\ f.source = "s3://bronze/b" /\ Len(f.rows) = 1

====
